---- MODULE Spec2Model ----
(***************************************************************************)
(* Model of ibeam's credential resolution layer:                           *)
(*   src/ibeam/src/handlers/db_handler.py      (DatabaseHandler)           *)
(*   src/ibeam/src/handlers/secrets_handler.py (SecretsHandler)            *)
(*                                                                         *)
(* Python values are encoded as follows.                                   *)
(*   str            a sequence of code points, "a\n" is <<97, 10>>         *)
(*   Optional[T]    a sequence of length at most one: None is <<>>,        *)
(*                  the value x is <<x>>                                   *)
(*   bool           BOOLEAN                                                *)
(* Everything outside the process (the policy store, the file system, the  *)
(* two HTTP endpoints) is an input of the call that touches it and is      *)
(* drawn from a small set.                                                 *)
(***************************************************************************)
EXTENDS Integers, Sequences, FiniteSets, TLC

----------------------------------------------------------------------------
(* Python values *)

None == <<>>

Some(x) == <<x>>

IsNone(o) == o = None

\* Python truthiness of an Optional[str]: None and '' are falsy.
Truthy(o) == o # None /\ o[1] # <<>>

\* Python truthiness of an Optional[bool].
TruthyBool(o) == o # None /\ o[1]

\* A setting that is either unset or set to the given text.
Setting(text) == {None, Some(text)}

\* An operator-supplied credential: unset, empty or the given text.
Credential(text) == {None, Some(<<>>), Some(text)}

----------------------------------------------------------------------------
(* str.lstrip(chars), str.rstrip(chars) *)

InChars(c, chars) == \E i \in 1..Len(chars) : chars[i] = c

RECURSIVE LStrip(_, _)
LStrip(s, chars) ==
    IF s # <<>> /\ InChars(Head(s), chars) THEN LStrip(Tail(s), chars) ELSE s

RECURSIVE RStrip(_, _)
RStrip(s, chars) ==
    IF s # <<>> /\ InChars(s[Len(s)], chars)
    THEN RStrip(SubSeq(s, 1, Len(s) - 1), chars)
    ELSE s

\* The two conditional trims of secret_value; lstrip and rstrip are Optional[str].
Trim(s, lstrip, rstrip) ==
    LET l == IF lstrip # None THEN LStrip(s, lstrip[1]) ELSE s
    IN  IF rstrip # None THEN RStrip(l, rstrip[1]) ELSE l

\* The default of secret_value's rstrip parameter, '\r\n'.
RSTRIP_DEFAULT == Some(<<13, 10>>)

LSTRIP_DEFAULT == None

----------------------------------------------------------------------------
(* base64.b64decode(payload_data) followed by bytes.decode('utf-8') *)

\* binascii's table_a2b: the 6-bit value of a base64 character, -1 if none.
B64Value(c) ==
    IF c >= 65 /\ c <= 90 THEN c - 65
    ELSE IF c >= 97 /\ c <= 122 THEN c - 71
    ELSE IF c >= 48 /\ c <= 57 THEN c + 4
    ELSE IF c = 43 THEN 62
    ELSE IF c = 47 THEN 63
    ELSE -1

\* binascii.a2b_base64 in its default (non-strict) mode. st is the decoder's
\* state: quad_pos, pads, leftchar and the bytes produced so far.
\* The result is [ok |-> BOOLEAN, bytes |-> sequence of bytes].
RECURSIVE A2B(_, _)
A2B(s, st) ==
    IF s = <<>>
    THEN [ok |-> st.quad_pos = 0, bytes |-> st.out]
    ELSE LET c == Head(s)
             v == B64Value(c)
         IN  IF c = 61
             THEN IF st.quad_pos >= 2 /\ st.quad_pos + st.pads + 1 >= 4
                  THEN [ok |-> TRUE, bytes |-> st.out]
                  ELSE A2B(Tail(s),
                           [st EXCEPT !.pads =
                               IF st.quad_pos >= 2 THEN st.pads + 1 ELSE st.pads])
             ELSE IF v < 0
             THEN A2B(Tail(s), st)
             ELSE IF st.quad_pos = 0
             THEN A2B(Tail(s), [st EXCEPT !.pads = 0, !.quad_pos = 1, !.leftchar = v])
             ELSE IF st.quad_pos = 1
             THEN A2B(Tail(s),
                      [quad_pos |-> 2, pads |-> 0, leftchar |-> v % 16,
                       out |-> Append(st.out, st.leftchar * 4 + v \div 16)])
             ELSE IF st.quad_pos = 2
             THEN A2B(Tail(s),
                      [quad_pos |-> 3, pads |-> 0, leftchar |-> v % 4,
                       out |-> Append(st.out, st.leftchar * 16 + v \div 4)])
             ELSE A2B(Tail(s),
                      [quad_pos |-> 0, pads |-> 0, leftchar |-> 0,
                       out |-> Append(st.out, st.leftchar * 64 + v)])

B64Decode(s) == A2B(s, [quad_pos |-> 0, pads |-> 0, leftchar |-> 0, out |-> <<>>])

\* bytes.decode('utf-8') for one- and two-byte sequences; every other lead
\* byte that the payloads of this model contain is invalid UTF-8.
\* The result is [ok |-> BOOLEAN, str |-> sequence of code points].
RECURSIVE Utf8(_, _)
Utf8(b, acc) ==
    IF b = <<>> THEN [ok |-> TRUE, str |-> acc]
    ELSE IF b[1] < 128 THEN Utf8(Tail(b), Append(acc, b[1]))
    ELSE IF b[1] >= 194 /\ b[1] <= 223 /\ Len(b) >= 2 /\ b[2] >= 128 /\ b[2] <= 191
    THEN Utf8(SubSeq(b, 3, Len(b)), Append(acc, (b[1] - 192) * 64 + (b[2] - 128)))
    ELSE [ok |-> FALSE, str |-> <<>>]

Utf8Decode(b) == Utf8(b, <<>>)

----------------------------------------------------------------------------
(* Bounds of the model *)

\* The number of concurrent first-time callers of the policy check.
NumCallers == 2

\* The cap on the connections counted over the process lifetime.
MaxConnects == 3

----------------------------------------------------------------------------
(* Program constants *)

SECRETS_SOURCE_ENV == "env"

SECRETS_SOURCE_FS == "fs"

SECRETS_SOURCE_GCP_SECRETS == "gcp_secrets_manager"

\* The only status the two HTTP requests of secret_value accept.
HTTP_OK == 200

\* The strings the policy check accepts as true: 'true', '1', 'yes', 'on'.
TRUE_STRINGS ==
    { <<116, 114, 117, 101>>, <<49>>, <<121, 101, 115>>, <<111, 110>> }

\* The names secret_value and the override write in os.environ.
IBEAM_ACCOUNT == "IBEAM_ACCOUNT"

IBEAM_PASSWORD == "IBEAM_PASSWORD"

IBEAM_KEY == "IBEAM_KEY"

IBEAM_USE_PAPER_ACCOUNT == "IBEAM_USE_PAPER_ACCOUNT"

EnvNames == {IBEAM_ACCOUNT, IBEAM_PASSWORD, IBEAM_KEY, IBEAM_USE_PAPER_ACCOUNT}

\* 'true', the value written to IBEAM_USE_PAPER_ACCOUNT.
STR_TRUE == <<116, 114, 117, 101>>

----------------------------------------------------------------------------
(* State *)

VARIABLES
    db_handler,   \* the DatabaseHandler: its five settings and _use_paper
    secrets,      \* the SecretsHandler: secrets_source, gcp_base_url,
                  \* paper_account, paper_password, _use_paper_from_db,
                  \* _db_check_done
    environ,      \* os.environ restricted to EnvNames: name -> Optional[str]
    store,        \* what the policy store has seen: connections opened,
                  \* queries issued, connections not yet passed to close()
    last,         \* the last completed call: operation, arguments, result
                  \* and the I/O it performed
    first_decision,  \* what the first completed call of
                  \* should_use_paper_account() returned, None before it
    callers       \* the position and locals of each concurrent caller

vars == <<db_handler, secrets, environ, store, last, first_decision, callers>>

----------------------------------------------------------------------------
(* SecretsHandler.secret_value *)

\* What the world outside answers to one call of secret_value.
\*   isfile        os.path.isfile(value)
\*   file          what open(...).read() does: "ok", "io_error" (an IOError)
\*                 or "decode_error" (a UnicodeDecodeError or LookupError,
\*                 neither of which is an IOError)
\*   content       the text of the file
\*   token         the metadata request: "transport_error" (requests.get
\*                 raises), "bad_body" (status 200, no access_token in the
\*                 body) or "response"
\*   token_status  the status code of the token response
\*   secret, secret_status   the same for the secret request
\*   payload       payload.data of the secret response
NoWorld ==
    [isfile |-> FALSE, file |-> "ok", content |-> <<>>,
     token |-> "response", token_status |-> HTTP_OK,
     secret |-> "response", secret_status |-> HTTP_OK, payload |-> <<>>]

\* File contents: 's\r\n', ' s\n', ''.
FileContents == { <<115, 13, 10>>, <<32, 115, 10>>, <<>> }

FsWorlds ==
    { [NoWorld EXCEPT !.isfile = FALSE] }
    \cup { [NoWorld EXCEPT !.isfile = TRUE, !.file = k] :
             k \in {"io_error", "decode_error"} }
    \cup { [NoWorld EXCEPT !.isfile = TRUE, !.file = "ok", !.content = c] :
             c \in FileContents }

\* Payloads: 'cw==' is 's', 'cwo=' is 's\n', 'cw' has incorrect padding,
\* '/w==' is the byte 0xFF, which is not UTF-8.
Payloads ==
    { <<99, 119, 61, 61>>, <<99, 119, 111, 61>>, <<99, 119>>, <<47, 119, 61, 61>> }

GcpWorlds ==
    { [NoWorld EXCEPT !.token = k] : k \in {"transport_error", "bad_body"} }
    \cup { [NoWorld EXCEPT !.token_status = 403] }
    \cup { [NoWorld EXCEPT !.secret = k] : k \in {"transport_error", "bad_body"} }
    \cup { [NoWorld EXCEPT !.secret_status = 404] }
    \cup { [NoWorld EXCEPT !.payload = p] : p \in Payloads }

\* The answers that matter to a handler in the given source mode.
Worlds(source) ==
    IF source = SECRETS_SOURCE_FS THEN FsWorlds
    ELSE IF source = SECRETS_SOURCE_GCP_SECRETS THEN GcpWorlds
    ELSE {NoWorld}

\* The result of a call: the value returned (None when the call raised),
\* whether an exception left the call, the files opened and the HTTP requests
\* issued, in order.
Returned(v, reads, reqs) ==
    [ret |-> v, raised |-> FALSE, reads |-> reads, reqs |-> reqs]

Raised(reads, reqs) ==
    [ret |-> None, raised |-> TRUE, reads |-> reads, reqs |-> reqs]

\* The 'env' branch.
SecretFromEnv(value, lstrip, rstrip) ==
    Returned(Some(Trim(value, lstrip, rstrip)), 0, <<>>)

\* The 'fs' branch. Only IOError is caught.
SecretFromFile(value, lstrip, rstrip, w) ==
    IF ~w.isfile THEN Returned(None, 0, <<>>)
    ELSE IF w.file = "io_error" THEN Returned(None, 1, <<>>)
    ELSE IF w.file = "decode_error" THEN Raised(1, <<>>)
    ELSE Returned(Some(Trim(w.content, lstrip, rstrip)), 1, <<>>)

\* A fetch that asks for the secret whatever the token request answered.
SecretFromGcp_IgnoresTokenStatus(gcp_base_url, value, w) ==
    IF w.token = "transport_error" THEN Raised(0, <<"token">>)
    ELSE IF w.secret_status # HTTP_OK THEN Returned(None, 0, <<"token", "secret">>)
    ELSE Returned(Some(Utf8Decode(B64Decode(w.payload).bytes).str), 0,
                  <<"token", "secret">>)

\* The 'gcp_secrets_manager' branch. Neither requests.get nor the two
\* subscripts of the JSON bodies nor the concatenation of the URL is inside a
\* try; only the decoding of the payload is. The decoded text is returned as
\* it is.
SecretFromGcp(gcp_base_url, value, w) ==
    IF w.token = "transport_error" THEN Raised(0, <<"token">>)
    ELSE IF w.token_status # HTTP_OK THEN Returned(None, 0, <<"token">>)
    ELSE IF w.token = "bad_body" THEN Raised(0, <<"token">>)
    ELSE IF gcp_base_url = None THEN Raised(0, <<"token">>)
    ELSE IF w.secret = "transport_error" THEN Raised(0, <<"token", "secret">>)
    ELSE IF w.secret_status # HTTP_OK THEN Returned(None, 0, <<"token", "secret">>)
    ELSE IF w.secret = "bad_body" THEN Raised(0, <<"token", "secret">>)
    ELSE LET base64_data == B64Decode(w.payload)
             decoded_data == Utf8Decode(base64_data.bytes)
         IN  IF ~base64_data.ok \/ ~decoded_data.ok
             THEN Returned(None, 0, <<"token", "secret">>)
             ELSE Returned(Some(decoded_data.str), 0, <<"token", "secret">>)

\* A secret_value that reads os.environ.get(name, '').
SecretValue_EmptyDefault(h, env, name, lstrip, rstrip, w) ==
    LET value == IF env[name] = None THEN <<>> ELSE env[name][1]
    IN  IF h.secrets_source = SECRETS_SOURCE_ENV
        THEN SecretFromEnv(value, lstrip, rstrip)
        ELSE IF h.secrets_source = SECRETS_SOURCE_FS
        THEN SecretFromFile(value, lstrip, rstrip, w)
        ELSE IF h.secrets_source = SECRETS_SOURCE_GCP_SECRETS
        THEN SecretFromGcp(h.gcp_base_url, value, w)
        ELSE Returned(None, 0, <<>>)

\* A secret_value whose last branch is the managed fetch: every source mode
\* other than 'env' and 'fs' issues the requests.
SecretValue_DefaultsToGcp(h, env, name, lstrip, rstrip, w) ==
    LET value == env[name]
    IN  IF value = None THEN Returned(None, 0, <<>>)
        ELSE IF h.secrets_source = SECRETS_SOURCE_ENV
        THEN SecretFromEnv(value[1], lstrip, rstrip)
        ELSE IF h.secrets_source = SECRETS_SOURCE_FS
        THEN SecretFromFile(value[1], lstrip, rstrip, w)
        ELSE SecretFromGcp(h.gcp_base_url, value[1], w)

\* secret_value(encoding, name, lstrip, rstrip) of handler h in environment env.
SecretValue(h, env, name, lstrip, rstrip, w) ==
    LET value == env[name]
    IN  IF value = None THEN Returned(None, 0, <<>>)
        ELSE IF h.secrets_source = SECRETS_SOURCE_ENV
        THEN SecretFromEnv(value[1], lstrip, rstrip)
        ELSE IF h.secrets_source = SECRETS_SOURCE_FS
        THEN SecretFromFile(value[1], lstrip, rstrip, w)
        ELSE IF h.secrets_source = SECRETS_SOURCE_GCP_SECRETS
        THEN SecretFromGcp(h.gcp_base_url, value[1], w)
        ELSE Returned(None, 0, <<>>)

----------------------------------------------------------------------------
(* DatabaseHandler.should_use_paper_account *)

\* The column the query selects and reads from the row.
VALUE_COLUMN == "value"

\* The decision column of a table of the older layout.
LEGACY_COLUMN == "use_paper_account"

\* A value of the decision column, tagged with its Python type.
\*   "bool" b, "int" i, "str" s, "other" (NULL, a float, bytes, ...)
NoValue == [type |-> "other", b |-> FALSE, i |-> 0, s |-> <<>>]

BoolValue(b) == [NoValue EXCEPT !.type = "bool", !.b = b]

IntValue(i) == [NoValue EXCEPT !.type = "int", !.i = i]

StrValue(s) == [NoValue EXCEPT !.type = "str", !.s = s]

\* 'TRUE', 'on', '0', 'no', ''
RowStrings ==
    { <<84, 82, 85, 69>>, <<111, 110>>, <<48>>, <<110, 111>>, <<>> }

RowValues ==
    { BoolValue(b) : b \in BOOLEAN }
    \cup { IntValue(i) : i \in {0, 1, -1} }
    \cup { StrValue(s) : s \in RowStrings }
    \cup { NoValue }

\* What the policy store answers to one check.
\*   kind      "no_module"      import pymysql raises ImportError
\*             "connect_error"  pymysql.connect raises
\*             "query_error"    cursor.execute or fetchone raises
\*             "no_row"         fetchone returns None
\*             "row"            fetchone returns a row holding value
\*   close_ok  whether connection.close() returns (TRUE) or raises
\*   columns   the decision columns the IBEAM table has
NoDb ==
    [kind |-> "no_module", value |-> NoValue, close_ok |-> TRUE,
     columns |-> {VALUE_COLUMN}]

DbWorlds ==
    { NoDb, [NoDb EXCEPT !.kind = "connect_error"] }
    \cup { [NoDb EXCEPT !.kind = k, !.close_ok = c] :
             k \in {"query_error", "no_row"}, c \in BOOLEAN }
    \cup { [NoDb EXCEPT !.kind = "row", !.value = v, !.close_ok = c] :
             v \in RowValues, c \in BOOLEAN }
    \cup { [NoDb EXCEPT !.kind = "row", !.value = v, !.columns = {LEGACY_COLUMN}] :
             v \in {BoolValue(TRUE), IntValue(1)} }

\* Whether the query raises: the store fails, or the table lacks the column
\* the SELECT names.
QueryRaises(w) ==
    \/ w.kind = "query_error"
    \/ w.kind \in {"no_row", "row"} /\ VALUE_COLUMN \notin w.columns

\* str.lower() on ASCII text.
Lower(s) ==
    [i \in 1..Len(s) |-> IF s[i] >= 65 /\ s[i] <= 90 THEN s[i] + 32 ELSE s[i]]

\* An isinstance chain that compares the text without lower-casing it.
Normalize_CaseSensitive(value) ==
    IF value.type = "bool" THEN value.b
    ELSE IF value.type = "int" THEN value.i # 0
    ELSE IF value.type = "str" THEN value.s \in TRUE_STRINGS
    ELSE FALSE

\* The isinstance chain that turns the column's value into the decision.
Normalize(value) ==
    IF value.type = "bool" THEN value.b
    ELSE IF value.type = "int" THEN value.i # 0
    ELSE IF value.type = "str" THEN Lower(value.s) \in TRUE_STRINGS
    ELSE FALSE

\* A validation that requires the password too.
Missing_WithPassword(h) ==
    { k \in {"db_host", "db_user", "db_password", "db_name", "machine_name"} :
        h[k] = None }

\* The required settings that are None. DBPASSWORD is not among them.
Missing(h) ==
    { k \in {"db_host", "db_user", "db_name", "machine_name"} : h[k] = None }

\* password=self.db_password or ''
ConnectPassword(h) ==
    IF Truthy(h.db_password) THEN h.db_password[1] ELSE <<>>

\* The result of a check.
\*   ret        the value returned
\*   raised     an exception left the call
\*   use_paper  the new value of _use_paper
\*   connects, queries, closed   the connections opened, the queries issued
\*              and the connections close() was called on
\*   password   the password given to pymysql.connect, None when it was
\*              not called
\*   answer     the store's answer, None when the try block was not entered
NoCheck(h) ==
    [ret |-> FALSE, raised |-> FALSE, use_paper |-> h._use_paper,
     connects |-> 0, queries |-> 0, closed |-> 0,
     password |-> None, answer |-> None]

\* The return of the memoized decision.
Memoized(h) == [NoCheck(h) EXCEPT !.ret = h._use_paper[1]]

\* The early return on missing settings: _use_paper is not assigned.
SkipCheck(h) == NoCheck(h)

\* A check whose finally clause is outside every try: an exception raised by
\* close() leaves the call, after _use_paper was assigned.
QueryStore_CloseRaises(h, w) ==
    LET failed == [NoCheck(h) EXCEPT !.use_paper = Some(FALSE), !.answer = Some(w)]
        connected == [failed EXCEPT !.password = Some(ConnectPassword(h))]
        queried == [connected EXCEPT !.connects = 1, !.queries = 1,
                                     !.closed = 1,
                                     !.raised = ~w.close_ok]
    IN  IF w.kind = "no_module" THEN failed
        ELSE IF w.kind = "connect_error" THEN connected
        ELSE IF QueryRaises(w) \/ w.kind = "no_row" THEN queried
        ELSE [queried EXCEPT !.ret = w.close_ok /\ Normalize(w.value),
                             !.use_paper = Some(Normalize(w.value))]

\* A check whose except clauses return False without assigning _use_paper,
\* as the early return on missing settings does.
QueryStore_FailureNotMemoized(h, w) ==
    LET failed == [NoCheck(h) EXCEPT !.answer = Some(w)]
        connected == [failed EXCEPT !.password = Some(ConnectPassword(h))]
        queried == [connected EXCEPT !.connects = 1, !.queries = 1, !.closed = 1]
    IN  IF w.kind = "no_module" THEN failed
        ELSE IF w.kind = "connect_error" THEN connected
        ELSE IF QueryRaises(w) \/ ~w.close_ok THEN queried
        ELSE IF w.kind = "no_row" THEN [queried EXCEPT !.use_paper = Some(FALSE)]
        ELSE [queried EXCEPT !.ret = Normalize(w.value),
                             !.use_paper = Some(Normalize(w.value))]

\* A check that calls close() at the end of the inner try instead of in a
\* finally clause: a query that raises skips it.
QueryStore_NoFinally(h, w) ==
    LET failed == [NoCheck(h) EXCEPT !.use_paper = Some(FALSE), !.answer = Some(w)]
        connected == [failed EXCEPT !.password = Some(ConnectPassword(h))]
        queried == [connected EXCEPT !.connects = 1, !.queries = 1, !.closed = 1]
    IN  IF w.kind = "no_module" THEN failed
        ELSE IF w.kind = "connect_error" THEN connected
        ELSE IF QueryRaises(w) THEN [queried EXCEPT !.closed = 0]
        ELSE IF w.kind = "no_row" \/ ~w.close_ok THEN queried
        ELSE [queried EXCEPT !.ret = Normalize(w.value),
                             !.use_paper = Some(Normalize(w.value))]

\* The body of the outer try: import, connect, query, close. Every path
\* assigns _use_paper before it returns. An exception raised by close() in
\* the finally clause replaces the return in progress and is handled by the
\* outer except like any other.
QueryStore(h, w) ==
    LET failed == [NoCheck(h) EXCEPT !.use_paper = Some(FALSE), !.answer = Some(w)]
        connected == [failed EXCEPT !.password = Some(ConnectPassword(h))]
        queried == [connected EXCEPT !.connects = 1, !.queries = 1, !.closed = 1]
    IN  IF w.kind = "no_module" THEN failed
        ELSE IF w.kind = "connect_error" THEN connected
        ELSE IF QueryRaises(w) \/ ~w.close_ok THEN queried
        ELSE IF w.kind = "no_row" THEN queried
        ELSE [queried EXCEPT !.ret = Normalize(w.value),
                             !.use_paper = Some(Normalize(w.value))]

\* A check that does not test whether _use_paper was assigned.
ShouldUsePaperAccount_NoMemo(h, w) ==
    IF Missing(h) # {} THEN SkipCheck(h) ELSE QueryStore(h, w)

\* should_use_paper_account() of handler h, the store answering w.
ShouldUsePaperAccount(h, w) ==
    IF h._use_paper # None THEN Memoized(h)
    ELSE IF Missing(h) # {} THEN SkipCheck(h)
    ELSE QueryStore(h, w)

----------------------------------------------------------------------------
(* The record of the last completed call *)

\*   op        the operation, "" before the first call
\*   name      the name a secret_value call was asked for, "" if none
\*   lstrip, rstrip   the trims secret_value was called with
\*   paper_account, paper_password   the arguments
\*             configure_paper_account_env was called with
\*   ret       the str a call returned (None when it returned None,
\*             returned a bool or raised)
\*   bret      the bool should_use_paper_account returned
\*   raised    an exception left the call
\*   reads     the files the call opened
\*   reqs      the HTTP requests the call issued, in order
\*   connects, queries   the connections the call opened, the queries issued
\*   password  the password the call gave to pymysql.connect, if it called it
\*   seen      the store's answer, if the call entered the try block
\*   world     the answer of the file system or the HTTP endpoints
\*   wrote     the names the call assigned in os.environ
NoCall ==
    [op |-> "", name |-> "", lstrip |-> None, rstrip |-> None,
     paper_account |-> None, paper_password |-> None,
     ret |-> None, bret |-> FALSE, raised |-> FALSE,
     reads |-> 0, reqs |-> <<>>, connects |-> 0, queries |-> 0,
     password |-> None, seen |-> None, world |-> NoWorld, wrote |-> {}]

\* The part of the record a policy check fills in.
WithCheck(rec, r) ==
    [rec EXCEPT !.connects = r.connects, !.queries = r.queries,
                !.password = r.password, !.seen = r.answer,
                !.raised = r.raised]

\* The part of the record a secret_value call fills in.
WithSecret(rec, name, lstrip, rstrip, w, s) ==
    [rec EXCEPT !.name = name, !.lstrip = lstrip, !.rstrip = rstrip,
                !.world = w,
                !.ret = s.ret, !.raised = s.raised,
                !.reads = s.reads, !.reqs = s.reqs]

\* The store after a check.
StoreAfter(st, r) ==
    [connects |-> st.connects + r.connects,
     queries |-> st.queries + r.queries,
     open |-> st.open + r.connects - r.closed]

----------------------------------------------------------------------------
(* SecretsHandler._check_database and the conditions of the accessors *)

\* _check_database(): whether should_use_paper_account() was called, its
\* result and the new _use_paper_from_db.
CheckDatabase(s, h, w) ==
    IF ~s._db_check_done
    THEN LET r == ShouldUsePaperAccount(h, w)
         IN  [called |-> TRUE, check |-> r, from_db |-> Some(r.ret)]
    ELSE [called |-> FALSE, check |-> NoCheck(h), from_db |-> s._use_paper_from_db]

\* An override decided by the credential alone.
AccountOverride_IgnoresDecision(from_db, paper_account) ==
    Truthy(paper_account)

\* if self._use_paper_from_db and self.paper_account is not None
AccountOverride_NotNone(from_db, paper_account) ==
    TruthyBool(from_db) /\ paper_account # None

\* if self._use_paper_from_db and self.paper_account
AccountOverride(from_db, paper_account) ==
    TruthyBool(from_db) /\ Truthy(paper_account)

\* if self._use_paper_from_db and self.paper_password
PasswordOverride(from_db, paper_password) ==
    TruthyBool(from_db) /\ Truthy(paper_password)

\* An override that replaces the key along with the account and password.
PaperEnv_WritesKey(use_paper, paper_account, paper_password) ==
    IF ~use_paper \/ ~Truthy(paper_account) \/ ~Truthy(paper_password) THEN {}
    ELSE { <<IBEAM_USE_PAPER_ACCOUNT, STR_TRUE>>,
           <<IBEAM_ACCOUNT, paper_account[1]>>,
           <<IBEAM_PASSWORD, paper_password[1]>>,
           <<IBEAM_KEY, paper_password[1]>> }

\* An override that needs the account only: the flag and the account are
\* written, the password when there is one.
PaperEnv_AccountOnly(use_paper, paper_account, paper_password) ==
    IF ~use_paper \/ ~Truthy(paper_account) THEN {}
    ELSE { <<IBEAM_USE_PAPER_ACCOUNT, STR_TRUE>>,
           <<IBEAM_ACCOUNT, paper_account[1]>> }
         \cup IF Truthy(paper_password)
              THEN { <<IBEAM_PASSWORD, paper_password[1]>> } ELSE {}

\* The names configure_paper_account_env assigns, with their values.
\* if not self.should_use_paper_account(): return
\* if not paper_account or not paper_password: return
PaperEnv(use_paper, paper_account, paper_password) ==
    IF ~use_paper THEN {}
    ELSE IF ~Truthy(paper_account) \/ ~Truthy(paper_password) THEN {}
    ELSE { <<IBEAM_USE_PAPER_ACCOUNT, STR_TRUE>>,
           <<IBEAM_ACCOUNT, paper_account[1]>>,
           <<IBEAM_PASSWORD, paper_password[1]>> }

\* os.environ after the assignments in writes.
Assign(env, writes) ==
    [n \in DOMAIN env |->
        IF \E p \in writes : p[1] = n
        THEN Some((CHOOSE p \in writes : p[1] = n)[2])
        ELSE env[n]]

\* first_decision after a call of should_use_paper_account() returned ret.
Decided(first, ret) == IF first = None THEN Some(ret) ELSE first

----------------------------------------------------------------------------
(* The inputs of a call *)

\* The names secret_value is asked for.
SecretNames == {IBEAM_ACCOUNT, IBEAM_PASSWORD, IBEAM_KEY}

\* The (name, lstrip, rstrip) arguments of secret_value: every name with the
\* default trims, and IBEAM_ACCOUNT, whose value has white space on both
\* sides, with a left trim of ' ' and with no trim at all.
SecretCalls ==
    { <<n, LSTRIP_DEFAULT, RSTRIP_DEFAULT>> : n \in SecretNames }
    \cup { <<IBEAM_ACCOUNT, Some(<<32>>), RSTRIP_DEFAULT>>,
           <<IBEAM_ACCOUNT, None, None>> }

\* The (paper_account, paper_password) arguments of
\* configure_paper_account_env: each of 'U' and 'P' given, empty or None.
PaperArguments == Credential(<<85>>) \X Credential(<<80>>)

\* The outside world answers only a call that asks: when the result of a
\* call is the same for every answer, a single answer is drawn.
StoreAnswers(h) ==
    IF \A w \in DbWorlds : ShouldUsePaperAccount(h, w) = ShouldUsePaperAccount(h, NoDb)
    THEN {NoDb} ELSE DbWorlds

CheckAnswers(s, h) ==
    IF \A w \in DbWorlds : CheckDatabase(s, h, w) = CheckDatabase(s, h, NoDb)
    THEN {NoDb} ELSE DbWorlds

SecretAnswers(h, env, name, lstrip, rstrip) ==
    IF \A w \in Worlds(h.secrets_source) :
          SecretValue(h, env, name, lstrip, rstrip, w)
              = SecretValue(h, env, name, lstrip, rstrip, NoWorld)
    THEN {NoWorld} ELSE Worlds(h.secrets_source)

----------------------------------------------------------------------------
(* The calls of a single thread of control *)

Idle == \A t \in DOMAIN callers : callers[t].pc = "idle"

\* db_handler.should_use_paper_account()
should_use_paper_account ==
    /\ Idle
    /\ \E w \in StoreAnswers(db_handler) :
        LET r == ShouldUsePaperAccount(db_handler, w)
        IN  /\ store.connects + r.connects <= MaxConnects
            /\ db_handler' = [db_handler EXCEPT !._use_paper = r.use_paper]
            /\ store' = StoreAfter(store, r)
            /\ last' = [WithCheck([NoCall EXCEPT !.op = "should_use_paper_account"], r)
                          EXCEPT !.bret = r.ret]
            /\ first_decision' = Decided(first_decision, r.ret)
    /\ UNCHANGED <<secrets, environ, callers>>

\* db_handler.configure_paper_account_env(paper_account, paper_password)
configure_paper_account_env ==
    /\ Idle
    /\ \E w \in StoreAnswers(db_handler) :
       \E a \in PaperArguments :
        LET r == ShouldUsePaperAccount(db_handler, w)
            writes == PaperEnv(r.ret, a[1], a[2])
        IN  /\ store.connects + r.connects <= MaxConnects
            /\ db_handler' = [db_handler EXCEPT !._use_paper = r.use_paper]
            /\ store' = StoreAfter(store, r)
            /\ environ' = Assign(environ, writes)
            /\ last' = [WithCheck([NoCall EXCEPT !.op = "configure_paper_account_env"], r)
                          EXCEPT !.paper_account = a[1], !.paper_password = a[2],
                                 !.bret = r.ret, !.wrote = { p[1] : p \in writes }]
            /\ first_decision' = Decided(first_decision, r.ret)
    /\ UNCHANGED <<secrets, callers>>

\* secrets.secret_value(encoding, name, lstrip, rstrip)
secret_value ==
    /\ Idle
    /\ \E a \in SecretCalls :
       \E w \in SecretAnswers(secrets, environ, a[1], a[2], a[3]) :
        LET s == SecretValue(secrets, environ, a[1], a[2], a[3], w)
        IN  last' = WithSecret([NoCall EXCEPT !.op = "secret_value"],
                               a[1], a[2], a[3], w, s)
    /\ UNCHANGED <<db_handler, secrets, environ, store, first_decision, callers>>

\* secrets.key
key ==
    /\ Idle
    /\ \E w \in SecretAnswers(secrets, environ, IBEAM_KEY,
                             LSTRIP_DEFAULT, RSTRIP_DEFAULT) :
        LET s == SecretValue(secrets, environ, IBEAM_KEY,
                             LSTRIP_DEFAULT, RSTRIP_DEFAULT, w)
        IN  last' = WithSecret([NoCall EXCEPT !.op = "key"], IBEAM_KEY,
                               LSTRIP_DEFAULT, RSTRIP_DEFAULT, w, s)
    /\ UNCHANGED <<db_handler, secrets, environ, store, first_decision, callers>>

\* secrets.account
account ==
    /\ Idle
    /\ \E w \in CheckAnswers(secrets, db_handler),
          sw \in SecretAnswers(secrets, environ, IBEAM_ACCOUNT,
                              LSTRIP_DEFAULT, RSTRIP_DEFAULT) :
        LET c == CheckDatabase(secrets, db_handler, w)
            override == AccountOverride(c.from_db, secrets.paper_account)
            s == SecretValue(secrets, environ, IBEAM_ACCOUNT,
                             LSTRIP_DEFAULT, RSTRIP_DEFAULT, sw)
            rec == WithCheck([NoCall EXCEPT !.op = "account"], c.check)
        IN  /\ store.connects + c.check.connects <= MaxConnects
            /\ db_handler' = [db_handler EXCEPT !._use_paper = c.check.use_paper]
            /\ store' = StoreAfter(store, c.check)
            /\ first_decision' =
                 IF c.called THEN Decided(first_decision, c.check.ret)
                 ELSE first_decision
            /\ secrets' = [secrets EXCEPT !._use_paper_from_db = c.from_db,
                                          !._db_check_done = TRUE]
            /\ environ' =
                 IF override
                 THEN [environ EXCEPT ![IBEAM_USE_PAPER_ACCOUNT] = Some(STR_TRUE)]
                 ELSE environ
            /\ last' =
                 IF override
                 THEN [rec EXCEPT !.ret = secrets.paper_account,
                                  !.wrote = {IBEAM_USE_PAPER_ACCOUNT}]
                 ELSE WithSecret(rec, IBEAM_ACCOUNT, LSTRIP_DEFAULT, RSTRIP_DEFAULT, sw, s)
    /\ UNCHANGED callers

\* A password that announces the override as account does.
password_Announces ==
    /\ Idle
    /\ \E w \in CheckAnswers(secrets, db_handler),
          sw \in SecretAnswers(secrets, environ, IBEAM_PASSWORD,
                              LSTRIP_DEFAULT, RSTRIP_DEFAULT) :
        LET c == CheckDatabase(secrets, db_handler, w)
            override == PasswordOverride(c.from_db, secrets.paper_password)
            s == SecretValue(secrets, environ, IBEAM_PASSWORD,
                             LSTRIP_DEFAULT, RSTRIP_DEFAULT, sw)
            rec == WithCheck([NoCall EXCEPT !.op = "password"], c.check)
        IN  /\ store.connects + c.check.connects <= MaxConnects
            /\ db_handler' = [db_handler EXCEPT !._use_paper = c.check.use_paper]
            /\ store' = StoreAfter(store, c.check)
            /\ first_decision' =
                 IF c.called THEN Decided(first_decision, c.check.ret)
                 ELSE first_decision
            /\ secrets' = [secrets EXCEPT !._use_paper_from_db = c.from_db,
                                          !._db_check_done = TRUE]
            /\ environ' =
                 IF override
                 THEN [environ EXCEPT ![IBEAM_USE_PAPER_ACCOUNT] = Some(STR_TRUE)]
                 ELSE environ
            /\ last' =
                 IF override
                 THEN [rec EXCEPT !.ret = secrets.paper_password]
                 ELSE WithSecret(rec, IBEAM_PASSWORD, LSTRIP_DEFAULT, RSTRIP_DEFAULT, sw, s)
    /\ UNCHANGED callers

\* secrets.password
password ==
    /\ Idle
    /\ \E w \in CheckAnswers(secrets, db_handler),
          sw \in SecretAnswers(secrets, environ, IBEAM_PASSWORD,
                              LSTRIP_DEFAULT, RSTRIP_DEFAULT) :
        LET c == CheckDatabase(secrets, db_handler, w)
            override == PasswordOverride(c.from_db, secrets.paper_password)
            s == SecretValue(secrets, environ, IBEAM_PASSWORD,
                             LSTRIP_DEFAULT, RSTRIP_DEFAULT, sw)
            rec == WithCheck([NoCall EXCEPT !.op = "password"], c.check)
        IN  /\ store.connects + c.check.connects <= MaxConnects
            /\ db_handler' = [db_handler EXCEPT !._use_paper = c.check.use_paper]
            /\ store' = StoreAfter(store, c.check)
            /\ first_decision' =
                 IF c.called THEN Decided(first_decision, c.check.ret)
                 ELSE first_decision
            /\ secrets' = [secrets EXCEPT !._use_paper_from_db = c.from_db,
                                          !._db_check_done = TRUE]
            /\ last' =
                 IF override
                 THEN [rec EXCEPT !.ret = secrets.paper_password]
                 ELSE WithSecret(rec, IBEAM_PASSWORD, LSTRIP_DEFAULT, RSTRIP_DEFAULT, sw, s)
    /\ UNCHANGED <<environ, callers>>

----------------------------------------------------------------------------
(* Construction *)

\* DatabaseHandler.__init__: 'h', 'r', 'd', 'm' and the password 'w'.
DatabaseHandlers ==
    [db_host : Setting(<<104>>), db_user : Setting(<<114>>),
     db_password : Credential(<<119>>), db_name : Setting(<<100>>),
     machine_name : Setting(<<109>>), _use_paper : {None}]

\* SecretsHandler.__init__: the override credentials 'U' and 'P'.
\* gcp_base_url is only read in the gcp_secrets_manager mode.
SecretsHandlers ==
    { s \in [secrets_source : {SECRETS_SOURCE_ENV, SECRETS_SOURCE_FS,
                               SECRETS_SOURCE_GCP_SECRETS, "vault"},
             gcp_base_url : Setting(<<98>>),
             paper_account : Credential(<<85>>),
             paper_password : Credential(<<80>>),
             _use_paper_from_db : {None}, _db_check_done : {FALSE}] :
        s.secrets_source # SECRETS_SOURCE_GCP_SECRETS => s.gcp_base_url = None }

\* A caller that has not called yet.
\*   pc     "idle", then the statement the caller is about to execute:
\*          "test" (line 32), "connect" (line 55), "query" (line 67),
\*          "close" (line 93), "return", and "done" after the call
\*   via    "direct" for a call of should_use_paper_account(), "accessor"
\*          for one made by _check_database()
\*   exc    an exception is propagating to the outer except clause
\*   found  fetchone() returned a row
\*   ret    the value the call returns
NoCaller ==
    [pc |-> "idle", via |-> "", exc |-> FALSE, found |-> FALSE, ret |-> None]

\* The policy check reads nothing but the DatabaseHandler, and secret_value
\* nothing but secrets_source, gcp_base_url and os.environ. The processes
\* modelled vary one of the three at a time:
\*   the settings of the policy store, with a resolver in 'env' mode that
\*   holds every credential;
\*   the override credentials and the environment, in 'env' mode, with a
\*   policy store that is fully configured or lacks its host;
\*   the source mode, with both or no override credentials and a full or an
\*   empty environment.
FullStore ==
    [db_host |-> Some(<<104>>), db_user |-> Some(<<114>>), db_password |-> None,
     db_name |-> Some(<<100>>), machine_name |-> Some(<<109>>), _use_paper |-> None]

NoHostStore == [FullStore EXCEPT !.db_host = None]

EnvResolver ==
    [secrets_source |-> SECRETS_SOURCE_ENV, gcp_base_url |-> None,
     paper_account |-> Some(<<85>>), paper_password |-> Some(<<80>>),
     _use_paper_from_db |-> None, _db_check_done |-> FALSE]

\* os.environ at start: ' u\r\n', 'p\n' and 'k' where set.
FullEnviron ==
    [n \in EnvNames |->
        IF n = IBEAM_ACCOUNT THEN Some(<<32, 117, 13, 10>>)
        ELSE IF n = IBEAM_PASSWORD THEN Some(<<112, 10>>)
        ELSE IF n = IBEAM_KEY THEN Some(<<107>>)
        ELSE None]

EmptyEnviron == [n \in EnvNames |-> None]

Environs ==
    { FullEnviron, EmptyEnviron,
      [EmptyEnviron EXCEPT ![IBEAM_ACCOUNT] = FullEnviron[IBEAM_ACCOUNT]],
      [FullEnviron EXCEPT ![IBEAM_ACCOUNT] = None] }

Processes ==
    \/ /\ db_handler \in DatabaseHandlers
       /\ secrets = EnvResolver
       /\ environ = FullEnviron
    \/ /\ db_handler \in {FullStore, NoHostStore}
       /\ secrets \in { s \in SecretsHandlers : s.secrets_source = SECRETS_SOURCE_ENV }
       /\ environ \in Environs
    \/ /\ db_handler \in {FullStore, NoHostStore}
       /\ secrets \in { s \in SecretsHandlers :
                           (s.paper_account = None) = (s.paper_password = None)
                           /\ s.paper_account # Some(<<>>)
                           /\ s.paper_password # Some(<<>>) }
       /\ environ \in {FullEnviron, EmptyEnviron}

Init ==
    /\ Processes
    /\ store = [connects |-> 0, queries |-> 0, open |-> 0]
    /\ last = NoCall
    /\ first_decision = None
    /\ callers = [t \in 1..NumCallers |-> NoCaller]

Next ==
    \/ should_use_paper_account
    \/ configure_paper_account_env
    \/ secret_value
    \/ key
    \/ account
    \/ password

Spec == Init /\ [][Next]_vars

----------------------------------------------------------------------------
(* Concurrent callers of the policy check *)

\* The same statements as ShouldUsePaperAccount and CheckDatabase, one step
\* per statement that reads or writes the handler or talks to the store.
\* Nothing in either handler takes a lock.

Callers == 1..NumCallers

At(t, pc) == callers[t].pc = pc

Goto(t, pc) == [callers EXCEPT ![t].pc = pc]

\* The caller calls should_use_paper_account() itself.
CallDirect(t) ==
    /\ At(t, "idle")
    /\ callers' = [callers EXCEPT ![t].pc = "test", ![t].via = "direct"]
    /\ UNCHANGED <<db_handler, secrets, environ, store, last, first_decision>>

\* The caller reads account or password: if not self._db_check_done
CallAccessor(t) ==
    /\ At(t, "idle")
    /\ callers' = [callers EXCEPT
                     ![t].pc = IF secrets._db_check_done THEN "done" ELSE "test",
                     ![t].via = "accessor",
                     ![t].ret = IF secrets._db_check_done
                                THEN secrets._use_paper_from_db ELSE None]
    /\ UNCHANGED <<db_handler, secrets, environ, store, last, first_decision>>

\* if self._use_paper is not None: return self._use_paper
\* if missing: return False
TestMemo(t) ==
    /\ At(t, "test")
    /\ callers' =
         IF db_handler._use_paper # None
         THEN [callers EXCEPT ![t].pc = "return", ![t].ret = db_handler._use_paper]
         ELSE IF Missing(db_handler) # {}
         THEN [callers EXCEPT ![t].pc = "return", ![t].ret = Some(FALSE)]
         ELSE Goto(t, "connect")
    /\ UNCHANGED <<db_handler, secrets, environ, store, last, first_decision>>

\* import pymysql; connection = pymysql.connect(...)
Connect(t) ==
    /\ At(t, "connect")
    /\ \/ /\ store.connects < MaxConnects
          /\ store' = [store EXCEPT !.connects = @ + 1, !.open = @ + 1]
          /\ callers' = Goto(t, "query")
          /\ UNCHANGED db_handler
       \/ /\ db_handler' = [db_handler EXCEPT !._use_paper = Some(FALSE)]
          /\ callers' = [callers EXCEPT ![t].pc = "return", ![t].ret = Some(FALSE)]
          /\ UNCHANGED store
    /\ UNCHANGED <<secrets, environ, last, first_decision>>

\* cursor.execute(sql, ...); result = cursor.fetchone() and the assignment
\* of self._use_paper that follows it
Query(t) ==
    /\ At(t, "query")
    /\ store' = [store EXCEPT !.queries = @ + 1]
    /\ \/ /\ callers' = [callers EXCEPT ![t].pc = "close", ![t].exc = TRUE]
          /\ UNCHANGED db_handler
       \/ /\ callers' = Goto(t, "close")
          /\ db_handler' = [db_handler EXCEPT !._use_paper = Some(FALSE)]
       \/ \E value \in RowValues :
          /\ callers' = [callers EXCEPT ![t].pc = "close", ![t].found = TRUE]
          /\ db_handler' = [db_handler EXCEPT !._use_paper = Some(Normalize(value))]
    /\ UNCHANGED <<secrets, environ, last, first_decision>>

\* return self._use_paper; finally: connection.close(); and the outer
\* except clause when an exception is propagating or close() raises
Close(t) ==
    /\ At(t, "close")
    /\ \E close_ok \in BOOLEAN :
        LET failed == callers[t].exc \/ ~close_ok
        IN  /\ store' = [store EXCEPT !.open = @ - 1]
            /\ db_handler' =
                 IF failed THEN [db_handler EXCEPT !._use_paper = Some(FALSE)]
                 ELSE db_handler
            /\ callers' =
                 [callers EXCEPT
                    ![t].pc = "return",
                    ![t].ret = IF failed \/ ~callers[t].found THEN Some(FALSE)
                               ELSE db_handler._use_paper]
    /\ UNCHANGED <<secrets, environ, last, first_decision>>

\* The call returns; _check_database stores the result and sets the flag.
Return(t) ==
    /\ At(t, "return")
    /\ callers' = Goto(t, "done")
    /\ secrets' =
         IF callers[t].via = "accessor"
         THEN [secrets EXCEPT !._use_paper_from_db = callers[t].ret,
                              !._db_check_done = TRUE]
         ELSE secrets
    /\ first_decision' = Decided(first_decision, callers[t].ret[1])
    /\ UNCHANGED <<db_handler, environ, store, last>>

\* Processes whose policy store has its four required settings.
InitConc ==
    /\ db_handler \in { h \in DatabaseHandlers : Missing(h) = {} }
    /\ secrets = EnvResolver
    /\ environ = FullEnviron
    /\ store = [connects |-> 0, queries |-> 0, open |-> 0]
    /\ last = NoCall
    /\ first_decision = None
    /\ callers = [t \in Callers |-> NoCaller]

NextConc ==
    \E t \in Callers :
        \/ CallDirect(t)
        \/ CallAccessor(t)
        \/ TestMemo(t)
        \/ Connect(t)
        \/ Query(t)
        \/ Close(t)
        \/ Return(t)

SpecConc == InitConc /\ [][NextConc]_vars

----------------------------------------------------------------------------
(* Properties *)

\* The calls that return what should_use_paper_account() returned.
GateCalls == {"should_use_paper_account", "configure_paper_account_env"}

\* The account family a completed accessor drew from: the override
\* credentials, or the resolved ones (it called secret_value).
Family(rec) == IF rec.name = "" THEN "override" ELSE "default"

\* An answer of the store that is a failure of the check.
Failed(w) ==
    w.kind \in {"no_module", "connect_error"} \/ QueryRaises(w) \/ ~w.close_ok

\* C1: concurrent first-time callers of the policy check open one connection
\* and issue one query against the store over the process lifetime.
C1_SingleQuery == store.connects <= 1 /\ store.queries <= 1

\* C2: once a call of should_use_paper_account() has returned a decision,
\* every later call returns the same decision and no later step opens a
\* connection or issues a query, whatever the store would answer.
C2_Memoized ==
    [][first_decision # None =>
          /\ store' = store
          /\ last'.connects = 0
          /\ last'.queries = 0
          /\ (last'.op \in GateCalls => last'.bret = first_decision[1])
          /\ (~secrets._db_check_done /\ secrets'._db_check_done
                => secrets'._use_paper_from_db = first_decision)]_vars

\* A later call returned the memoized True without touching the store.
C2_Witness ==
    /\ first_decision = Some(TRUE)
    /\ last.op = "should_use_paper_account"
    /\ last.bret
    /\ last.seen = None
    /\ store.queries = 1

\* C3: account and password, read one after the other, never draw from
\* different account families.
C3_SameFamily ==
    [][(\/ last.op = "account" /\ last'.op = "password"
        \/ last.op = "password" /\ last'.op = "account")
          => Family(last) = Family(last')]_vars

\* C4: a check that fails after validation returns False, leaves _use_paper
\* False and raises nothing.
C4_FailureIsFalse ==
    (last.seen # None /\ Failed(last.seen[1])) =>
        /\ db_handler._use_paper = Some(FALSE)
        /\ (last.op \in GateCalls => ~last.bret /\ ~last.raised)
        /\ (last.op \notin GateCalls => secrets._use_paper_from_db = Some(FALSE))

\* The row said True and close() raised: the call returned False.
C4_Witness ==
    /\ last.op = "should_use_paper_account"
    /\ last.seen # None
    /\ last.seen[1].kind = "row"
    /\ last.seen[1].value = BoolValue(TRUE)
    /\ ~last.seen[1].close_ok
    /\ ~last.bret
    /\ db_handler._use_paper = Some(FALSE)

\* C5: no call of secret_value raises.
C5_NeverRaises == last.name # "" => ~last.raised

\* C6: with a required setting missing, the first check opens no connection,
\* returns False and memoizes False.
C6_MissingMemoized ==
    (last.op = "should_use_paper_account" /\ Missing(db_handler) # {}) =>
        /\ last.connects = 0
        /\ ~last.bret
        /\ db_handler._use_paper = Some(FALSE)

\* C7: account returns the override account and writes the flag exactly when
\* the decision is True and the override account is non-empty; otherwise it
\* returns secret_value('IBEAM_ACCOUNT') and writes nothing.
C7_AccountOverride ==
    last.op = "account" =>
        IF /\ secrets._use_paper_from_db = Some(TRUE)
           /\ secrets.paper_account \notin {None, Some(<<>>)}
        THEN /\ last.ret = secrets.paper_account
             /\ ~last.raised
             /\ last.name = ""
             /\ last.wrote = {IBEAM_USE_PAPER_ACCOUNT}
             /\ environ[IBEAM_USE_PAPER_ACCOUNT] = Some(STR_TRUE)
        ELSE /\ last.wrote = {}
             /\ last.name = IBEAM_ACCOUNT
             /\ \E w \in Worlds(secrets.secrets_source) :
                   LET s == SecretValue(secrets, environ, IBEAM_ACCOUNT,
                                        LSTRIP_DEFAULT, RSTRIP_DEFAULT, w)
                   IN  last.ret = s.ret /\ last.raised = s.raised

\* account returned the override account 'U' and announced it.
C7_Witness ==
    /\ last.op = "account"
    /\ last.ret = Some(<<85>>)
    /\ last.wrote = {IBEAM_USE_PAPER_ACCOUNT}
    /\ environ[IBEAM_USE_PAPER_ACCOUNT] = Some(STR_TRUE)

\* What key can return in a process that has the given source mode and
\* IBEAM_KEY setting and nothing else: no override credentials, no policy
\* store, no call before it.
KeyOutcomes(source, gcp_base_url, key_setting) ==
    { LET s == SecretValue([secrets_source |-> source, gcp_base_url |-> gcp_base_url],
                           [EmptyEnviron EXCEPT ![IBEAM_KEY] = key_setting],
                           IBEAM_KEY, LSTRIP_DEFAULT, RSTRIP_DEFAULT, w)
      IN  <<s.ret, s.raised>> : w \in Worlds(source) }

\* C8: no call changes the IBEAM_KEY setting, key returns what the source
\* mode and the IBEAM_KEY setting alone determine, and key does not trigger
\* the policy check.
C8_KeyIndependent ==
    [][/\ environ'[IBEAM_KEY] = environ[IBEAM_KEY]
       /\ last'.op = "key" =>
            /\ <<last'.ret, last'.raised>>
                 \in KeyOutcomes(secrets.secrets_source, secrets.gcp_base_url,
                                 environ[IBEAM_KEY])
            /\ UNCHANGED <<db_handler, secrets, store, first_decision>>]_vars

\* key returned 'k' after the override replaced both other credentials.
C8_Witness ==
    /\ last.op = "key"
    /\ last.ret = Some(<<107>>)
    /\ secrets._use_paper_from_db = Some(TRUE)
    /\ environ[IBEAM_USE_PAPER_ACCOUNT] = Some(STR_TRUE)
    /\ environ[IBEAM_PASSWORD] = Some(<<80>>)

\* C9: secret_value on a name that is not set returns None, raises nothing,
\* opens no file and issues no request, in every source mode.
C9_UnsetIsNone ==
    (last.name # "" /\ environ[last.name] = None) =>
        /\ last.ret = None
        /\ ~last.raised
        /\ last.reads = 0
        /\ last.reqs = <<>>

\* An unset name was asked for in the gcp_secrets_manager mode.
C9_Witness ==
    /\ last.op = "secret_value"
    /\ secrets.secrets_source = SECRETS_SOURCE_GCP_SECRETS
    /\ environ[last.name] = None
    /\ last.ret = None

\* C10: in the gcp_secrets_manager mode every call on a set name issues one
\* token request, then at most one secret request and only if the token
\* request answered 200; a token or secret status other than 200 yields None.
C10_OneShotFetch ==
    (/\ last.name # ""
     /\ secrets.secrets_source = SECRETS_SOURCE_GCP_SECRETS
     /\ environ[last.name] # None) =>
        LET w == last.world
        IN  /\ last.reqs \in {<<"token">>, <<"token", "secret">>}
            /\ (Len(last.reqs) = 2 =>
                  w.token # "transport_error" /\ w.token_status = HTTP_OK)
            /\ (w.token # "transport_error" /\ w.token_status # HTTP_OK =>
                  last.reqs = <<"token">> /\ last.ret = None /\ ~last.raised)
            /\ ((Len(last.reqs) = 2 /\ w.secret # "transport_error"
                   /\ w.secret_status # HTTP_OK)
                  => last.ret = None /\ ~last.raised)

\* The token request answered 403: no secret request, None returned.
C10_Witness ==
    /\ last.op = "secret_value"
    /\ secrets.secrets_source = SECRETS_SOURCE_GCP_SECRETS
    /\ last.world.token_status = 403
    /\ last.reqs = <<"token">>
    /\ last.ret = None

\* The decision the store's answer stands for: no row is False, a bool is
\* itself, an int is whether it is not 0, a str is whether its lower-cased
\* form is 'true', '1', 'yes' or 'on', anything else is False.
Decision(w) ==
    IF w.kind = "no_row" THEN FALSE
    ELSE IF w.value.type = "bool" THEN w.value.b
    ELSE IF w.value.type = "int" THEN ~(w.value.i = 0)
    ELSE IF w.value.type = "str"
         THEN \E t \in { <<116, 114, 117, 101>>, <<49>>, <<121, 101, 115>>,
                         <<111, 110>> } :
                 /\ Len(t) = Len(w.value.s)
                 /\ \A i \in 1..Len(t) :
                       \/ w.value.s[i] = t[i]
                       \/ (t[i] >= 97 /\ w.value.s[i] = t[i] - 32)
         ELSE FALSE

\* C11: a first check whose query succeeded returns and memoizes the decision
\* its answer stands for: False for no row, else the normalized column value.
C11_Normalized ==
    (last.seen # None /\ ~Failed(last.seen[1])) =>
        /\ db_handler._use_paper = Some(Decision(last.seen[1]))
        /\ (last.op \in GateCalls => last.bret = Decision(last.seen[1]) /\ ~last.raised)
        /\ (last.op \notin GateCalls =>
              secrets._use_paper_from_db = Some(Decision(last.seen[1])))

\* The row held the text 'TRUE': the check returned and memoized True.
C11_Witness ==
    /\ last.op = "should_use_paper_account"
    /\ last.seen # None
    /\ last.seen[1].kind = "row"
    /\ last.seen[1].value = StrValue(<<84, 82, 85, 69>>)
    /\ last.seen[1].close_ok
    /\ last.bret
    /\ db_handler._use_paper = Some(TRUE)

\* C12: a row that holds a true decision makes should_use_paper_account()
\* return True, whether the table has the generic value column or only the
\* legacy use_paper_account column.
C12_BothSchemas ==
    (/\ last.op = "should_use_paper_account"
     /\ last.seen # None
     /\ last.seen[1].kind = "row"
     /\ last.seen[1].close_ok
     /\ last.seen[1].columns \in {{VALUE_COLUMN}, {LEGACY_COLUMN}}
     /\ last.seen[1].value \in {BoolValue(TRUE), IntValue(1)})
        => last.bret


\* The raw text a completed secret_value call resolved: the setting itself,
\* the content of the file it names, or the decoded payload of the secret.
RawValue ==
    IF secrets.secrets_source = SECRETS_SOURCE_ENV THEN environ[last.name][1]
    ELSE IF secrets.secrets_source = SECRETS_SOURCE_FS THEN last.world.content
    ELSE Utf8Decode(B64Decode(last.world.payload).bytes).str

\* C13: in every source mode the value secret_value returns is the resolved
\* raw value with the trims of the call applied.
C13_Trimmed ==
    (last.name # "" /\ last.ret # None) =>
        last.ret = Some(Trim(RawValue, last.lstrip, last.rstrip))

\* C14: between calls no connection is open: every connection that was opened
\* served one query and had close() called on it before the call returned,
\* whether the query found a row, found none or raised.
C14_ConnectionClosed ==
    /\ store.open = 0
    /\ store.queries = store.connects
    /\ last.queries = last.connects

\* The query raised on the one connection opened; the connection is closed.
C14_Witness ==
    /\ last.seen # None
    /\ last.seen[1].kind = "query_error"
    /\ last.connects = 1
    /\ store.connects = 1
    /\ store.open = 0

\* C15: a call of secret_value changes neither os.environ nor any field of
\* either handler nor the store, and only the gcp_secrets_manager mode issues
\* HTTP requests.
C15_SecretValuePure ==
    [][/\ last'.op = "secret_value" =>
            UNCHANGED <<db_handler, secrets, environ, store, first_decision>>
       /\ last'.reqs # <<>> =>
            secrets.secrets_source = SECRETS_SOURCE_GCP_SECRETS]_vars

\* A secret was fetched over HTTP after the policy check had set the
\* override: the decision and the flag are as they were.
C15_Witness ==
    /\ last.op = "secret_value"
    /\ last.reqs = <<"token", "secret">>
    /\ last.ret # None
    /\ secrets._use_paper_from_db = Some(TRUE)
    /\ environ[IBEAM_USE_PAPER_ACCOUNT] = Some(STR_TRUE)

\* C16: password leaves os.environ as it found it, on the override path and on
\* the default path, and no call other than account and
\* configure_paper_account_env changes IBEAM_USE_PAPER_ACCOUNT.
C16_PasswordWritesNothing ==
    [][/\ last'.op = "password" => environ' = environ /\ last'.wrote = {}
       /\ environ'[IBEAM_USE_PAPER_ACCOUNT] # environ[IBEAM_USE_PAPER_ACCOUNT] =>
            last'.op \in {"account", "configure_paper_account_env"}]_vars

\* password returned the override password 'P' and the flag is still unset.
C16_Witness ==
    /\ last.op = "password"
    /\ last.ret = Some(<<80>>)
    /\ last.name = ""
    /\ secrets._use_paper_from_db = Some(TRUE)
    /\ environ[IBEAM_USE_PAPER_ACCOUNT] = None

\* C17: configure_paper_account_env writes the flag 'true', IBEAM_ACCOUNT and
\* IBEAM_PASSWORD together when the decision is True and both arguments are
\* non-empty, and leaves os.environ unchanged in every other case.
C17_AllOrNothing ==
    [][last'.op = "configure_paper_account_env" =>
          IF /\ last'.bret
             /\ last'.paper_account \notin {None, Some(<<>>)}
             /\ last'.paper_password \notin {None, Some(<<>>)}
          THEN /\ environ' = [environ EXCEPT
                                ![IBEAM_USE_PAPER_ACCOUNT] = Some(STR_TRUE),
                                ![IBEAM_ACCOUNT] = last'.paper_account,
                                ![IBEAM_PASSWORD] = last'.paper_password]
               /\ last'.wrote = {IBEAM_USE_PAPER_ACCOUNT, IBEAM_ACCOUNT, IBEAM_PASSWORD}
          ELSE /\ environ' = environ
               /\ last'.wrote = {}]_vars

\* The decision was True and both arguments were given: all three are set.
C17_Witness ==
    /\ last.op = "configure_paper_account_env"
    /\ last.bret
    /\ last.paper_account = Some(<<85>>)
    /\ environ[IBEAM_USE_PAPER_ACCOUNT] = Some(STR_TRUE)
    /\ environ[IBEAM_ACCOUNT] = Some(<<85>>)
    /\ environ[IBEAM_PASSWORD] = Some(<<80>>)

\* C18: with host, user, database name and machine name set, a first check
\* whose store password is unset or empty enters the try block and, unless
\* the driver is missing, calls connect with the empty password.
C18_PasswordOptional ==
    [][(/\ last'.op \in GateCalls \cup {"account", "password"}
        /\ last'.op \notin GateCalls => ~secrets._db_check_done
        /\ db_handler._use_paper = None
        /\ \A k \in {"db_host", "db_user", "db_name", "machine_name"} :
              db_handler[k] # None
        /\ db_handler.db_password \in {None, Some(<<>>)})
          => /\ last'.seen # None
             /\ last'.seen[1].kind # "no_module" => last'.password = Some(<<>>)
             /\ last'.seen[1].kind \notin {"no_module", "connect_error"} =>
                  last'.connects = 1]_vars

\* Without a store password the check connected with '' and returned True.
C18_Witness ==
    /\ db_handler.db_password = None
    /\ last.op = "should_use_paper_account"
    /\ last.password = Some(<<>>)
    /\ last.connects = 1
    /\ last.bret

\* C19: whenever IBEAM_USE_PAPER_ACCOUNT is set, it is 'true' and the
\* decision the DatabaseHandler holds is True; once set it keeps its value.
C19_FlagMeansPaper ==
    [][/\ environ'[IBEAM_USE_PAPER_ACCOUNT] # None =>
            /\ environ'[IBEAM_USE_PAPER_ACCOUNT] = Some(STR_TRUE)
            /\ db_handler'._use_paper = Some(TRUE)
       /\ environ[IBEAM_USE_PAPER_ACCOUNT] # None =>
            environ'[IBEAM_USE_PAPER_ACCOUNT] = environ[IBEAM_USE_PAPER_ACCOUNT]]_vars

\* The flag was set by an earlier call and a later check that found the
\* settings of the store complete returned the memoized True.
C19_Witness ==
    /\ environ[IBEAM_USE_PAPER_ACCOUNT] = Some(STR_TRUE)
    /\ db_handler._use_paper = Some(TRUE)
    /\ last.op = "should_use_paper_account"
    /\ last.bret
    /\ last.seen = None

\* C20: a single thread of control opens at most one connection to the store
\* in total, and once _db_check_done is set _use_paper_from_db stays as it is
\* and equals what every later should_use_paper_account() returns.
C20_LayersAgree ==
    [][/\ store'.connects <= 1
       /\ secrets._db_check_done =>
            /\ secrets'._db_check_done
            /\ secrets'._use_paper_from_db = secrets._use_paper_from_db
            /\ last'.op \in GateCalls =>
                 Some(last'.bret) = secrets._use_paper_from_db]_vars

\* After an accessor recorded True, configure_paper_account_env obtained True
\* from the handler without another connection.
C20_Witness ==
    /\ secrets._db_check_done
    /\ secrets._use_paper_from_db = Some(TRUE)
    /\ last.op = "configure_paper_account_env"
    /\ last.bret
    /\ last.connects = 0
    /\ store.connects = 1

====
